---- MODULE Spec2Model ----
(***************************************************************************)
(* Model of src/main.js: the PortfolioCarousel class (slide index,         *)
(* indicators, auto-advance and progress timers, details panels, hover     *)
(* pause) and the video visibility handler that reads the active marker.   *)
(*                                                                         *)
(* Markup is an input.  The model takes the markup the code relies on:     *)
(* card 0 carries `active`, the indicator controls are the children of     *)
(* the indicator container when there is one, and the first markup         *)
(* indicator carries `active`.  The constructor itself never adds an       *)
(* `active` class.  A control that the markup lacks (prev/next button,     *)
(* details panel, carousel container) is the same as a control the user    *)
(* never uses, so those are not separate inputs.                           *)
(***************************************************************************)
EXTENDS Integers, Sequences, FiniteSets, TLC

\* ---- bounds of the model ------------------------------------------------
MaxSlides == 2
MaxExtraIndicators == 1
MaxPending == 2
MaxTicks == 1

\* ---- program constants --------------------------------------------------
autoAdvanceDelay == 9000
TickMs == 100
NULL == 0
NoIndex == -1

\* progress is kept as percent * ProgressScale, so that the increment
\* 100 / (autoAdvanceDelay / 100) is the integer 100 and 100% is Full
ProgressScale == autoAdvanceDelay \div TickMs
\* progress callbacks that are due before the auto-advance callback
TicksPerPeriod == autoAdvanceDelay \div TickMs
increment == 100
Full == 100 * ProgressScale

VARIABLES
  slideCount,           \* this.cards.length
  hasIndicatorContainer,\* document.querySelector('.carousel-indicators') found
  hasProgressFill,      \* this.progressFill found
  currentIndex,         \* this.currentIndex
  cardActive,           \* ordinals of cards with class `active`
  cardPrev,             \* ordinals of cards with class `prev`
  expanded,             \* ordinals of cards whose .pTextContainer is `expanded`
  indicators,           \* this.indicators: sequence of [synth, index, active]
  autoAdvanceInterval,  \* this.autoAdvanceInterval (NULL or a timer id)
  progressInterval,     \* this.progressInterval (NULL or a timer id)
  liveAuto,             \* ids of scheduled auto-advance interval timers
  progressTimers,       \* scheduled progress interval timers: id -> closure `progress`
  fillWidth,            \* this.progressFill.style.width (scaled percent)
  isPaused,             \* this.isPaused
  pendingTimeouts,      \* number of scheduled 600 ms timeouts of goToSlide
  autoAge,              \* host: TickMs periods elapsed since the auto-advance interval was armed
  pointerInside,        \* host: pointer is over .carousel-container
  isMobile,             \* matchMedia('(max-width: 768px)').matches at load
  intersecting,         \* host: ordinals whose .video-container is >= 60% visible
  playing,              \* ordinals whose video is playing
  mediaTime,            \* ordinal -> 0 (currentTime = 0) or 1 (currentTime > 0)
  overlayShown,         \* mobile: ordinals whose overlay is displayed
  lastEvent,            \* history: name of the handler that ran last
  lastArg,              \* history: its argument (ordinal), or NoIndex
  openPending,          \* history: a panel was opened, and none closed nor a manual goToSlide since
  nextRun               \* history: indices reached by consecutive goToNext calls since index 0

vars == <<slideCount, hasIndicatorContainer, hasProgressFill, currentIndex,
          cardActive, cardPrev, expanded, indicators, autoAdvanceInterval,
          progressInterval, liveAuto, progressTimers, fillWidth, isPaused,
          pendingTimeouts, autoAge, pointerInside, isMobile, intersecting, playing,
          mediaTime, overlayShown, lastEvent, lastArg, openPending, nextRun>>

fixedVars == <<slideCount, hasIndicatorContainer, hasProgressFill, isMobile>>
videoVars == <<intersecting, playing, mediaTime, overlayShown>>

Cards == 0 .. (slideCount - 1)

\* ---- the carousel object as a value ------------------------------------
\* The methods below are functions from the object's state to its state,
\* so that a handler is the composition of the calls it makes.
St ==
  [currentIndex |-> currentIndex, cardActive |-> cardActive,
   cardPrev |-> cardPrev, expanded |-> expanded, indicators |-> indicators,
   autoAdvanceInterval |-> autoAdvanceInterval,
   progressInterval |-> progressInterval, liveAuto |-> liveAuto,
   progressTimers |-> progressTimers, fillWidth |-> fillWidth,
   isPaused |-> isPaused, pendingTimeouts |-> pendingTimeouts,
   autoAge |-> autoAge]

Becomes(s) ==
  /\ currentIndex' = s.currentIndex
  /\ cardActive' = s.cardActive
  /\ cardPrev' = s.cardPrev
  /\ expanded' = s.expanded
  /\ indicators' = s.indicators
  /\ autoAdvanceInterval' = s.autoAdvanceInterval
  /\ progressInterval' = s.progressInterval
  /\ liveAuto' = s.liveAuto
  /\ progressTimers' = s.progressTimers
  /\ fillWidth' = s.fillWidth
  /\ isPaused' = s.isPaused
  /\ pendingTimeouts' = s.pendingTimeouts
  /\ autoAge' = s.autoAge

\* no progress timer scheduled
NoTimers == [j \in {} |-> 0]

\* ---- host timers --------------------------------------------------------
\* setInterval returns an id no live timer and no stored handle carries
UsedIds(s) ==
  s.liveAuto \cup DOMAIN s.progressTimers
    \cup ({s.autoAdvanceInterval, s.progressInterval} \ {NULL})

FreshId(s) ==
  CHOOSE id \in 1 .. (Cardinality(UsedIds(s)) + 1) :
    /\ id \notin UsedIds(s)
    /\ \A j \in 1 .. (id - 1) : j \in UsedIds(s)

clearInterval(s, id) ==
  LET old == s.progressTimers
  IN [s EXCEPT !.liveAuto = @ \ {id},
               !.progressTimers = [j \in (DOMAIN old) \ {id} |-> old[j]],
               !.autoAge = IF id \in s.liveAuto THEN 0 ELSE @]

\* ---- PortfolioCarousel methods -----------------------------------------
resetProgress(s) ==
  LET s1 == IF s.progressInterval # NULL
              THEN clearInterval(s, s.progressInterval) ELSE s
  IN IF hasProgressFill THEN [s1 EXCEPT !.fillWidth = 0] ELSE s1

startProgress(s) ==
  LET id == FreshId(s)
  IN [s EXCEPT !.progressTimers = (id :> 0) @@ @,
               !.progressInterval = id]

startAutoAdvance(s) ==
  LET s1 == startProgress(resetProgress(s))
      id == FreshId(s1)
  IN [s1 EXCEPT !.liveAuto = @ \cup {id}, !.autoAdvanceInterval = id,
                !.autoAge = 0]

\* variant: the pause clears the auto-advance timer only
pauseKeepsProgress(s) ==
  LET s1 == [s EXCEPT !.isPaused = TRUE]
  IN IF s1.autoAdvanceInterval # NULL
       THEN [clearInterval(s1, s1.autoAdvanceInterval)
               EXCEPT !.autoAdvanceInterval = NULL]
       ELSE s1

pauseAutoAdvance(s) ==
  LET s1 == [s EXCEPT !.isPaused = TRUE]
      s2 == IF s1.autoAdvanceInterval # NULL
              THEN [clearInterval(s1, s1.autoAdvanceInterval)
                      EXCEPT !.autoAdvanceInterval = NULL]
              ELSE s1
  IN IF s2.progressInterval # NULL
       THEN [clearInterval(s2, s2.progressInterval)
               EXCEPT !.progressInterval = NULL]
       ELSE s2

\* variant: the hover pause marks the carousel as paused
tempPauseMarksPaused(s) == pauseAutoAdvance(s)

tempPauseAutoAdvance(s) ==
  LET s1 == IF s.autoAdvanceInterval # NULL
              THEN [clearInterval(s, s.autoAdvanceInterval)
                      EXCEPT !.autoAdvanceInterval = NULL]
              ELSE s
  IN IF s1.progressInterval # NULL
       THEN [clearInterval(s1, s1.progressInterval)
               EXCEPT !.progressInterval = NULL]
       ELSE s1

\* variant: restarts without clearing the running timers first
resumeWithoutClear(s) ==
  LET s1 == IF ~s.isPaused THEN startAutoAdvance(s) ELSE s
  IN [s1 EXCEPT !.isPaused = FALSE]

\* variant: restarts whatever isPaused says
resumeAlwaysRestart(s) ==
  [startAutoAdvance(pauseAutoAdvance(s)) EXCEPT !.isPaused = FALSE]

resumeAutoAdvance(s) ==
  LET s1 == IF ~s.isPaused THEN startAutoAdvance(pauseAutoAdvance(s)) ELSE s
  IN [s1 EXCEPT !.isPaused = FALSE]

\* indicators are numbered from 0 as in the NodeList; the sequence is 1-based
IndicatorCount(s) == Len(s.indicators)

\* variant: the other indicators keep their active marker
setIndicatorActiveNoClear(s, i) ==
  [s EXCEPT !.indicators =
     IF i + 1 \in DOMAIN @ THEN [@ EXCEPT ![i + 1].active = TRUE] ELSE @]

setIndicatorActive(s, i) ==
  LET cleared == [p \in 1 .. Len(s.indicators) |->
                    [s.indicators[p] EXCEPT !.active = FALSE]]
  IN [s EXCEPT !.indicators =
        IF i + 1 \in DOMAIN cleared
          THEN [cleared EXCEPT ![i + 1].active = TRUE]
          ELSE cleared]

\* goToSlide(index).  cards[index] is undefined for an index that is not an
\* ordinal: the handler then throws at line 205, after lines 196-204 ran.
goToSlide(s, index) ==
  IF s.currentIndex \notin Cards THEN s
  ELSE
    LET s1 == [s EXCEPT !.expanded = {},
                        !.cardActive = @ \ {s.currentIndex},
                        !.cardPrev = @ \cup {s.currentIndex},
                        !.pendingTimeouts = @ + 1,
                        !.currentIndex = index]
    IN IF index \notin Cards THEN s1
       ELSE
         LET s2 == [s1 EXCEPT !.cardActive = @ \cup {index}]
             s3 == setIndicatorActive(s2, index)
         IN resumeAutoAdvance(resetProgress(s3))

\* variant: no wrap-around
NextIndexNoWrap(i, n) == i + 1

NextIndex(i, n) == (i + 1) % n
PrevIndex(i, n) == (i - 1 + n) % n

goToNext(s) == goToSlide(s, NextIndex(s.currentIndex, slideCount))
goToPrevious(s) == goToSlide(s, PrevIndex(s.currentIndex, slideCount))

\* the toggle closure of initDetailsToggle, for card c
toggle(s, c) ==
  IF c \in s.expanded
    THEN resumeAutoAdvance([s EXCEPT !.expanded = @ \ {c}])
    ELSE pauseAutoAdvance([s EXCEPT !.expanded = @ \cup {c}])

\* ---- construction -------------------------------------------------------
MarkupIndicator(i) == [synth |-> FALSE, index |-> NoIndex, active |-> (i = 0)]
SynthIndicator(i) == [synth |-> TRUE, index |-> i, active |-> FALSE]

\* the backfill loop of the constructor: for (i = startingIndex; i < n; i++)
\* variant: the loop stops one short
RECURSIVE BackfillShort(_, _, _)
BackfillShort(inds, i, n) ==
  IF i < n - 1 THEN BackfillShort(Append(inds, SynthIndicator(i)), i + 1, n)
  ELSE inds

RECURSIVE Backfill(_, _, _)
Backfill(inds, i, n) ==
  IF i < n THEN Backfill(Append(inds, SynthIndicator(i)), i + 1, n) ELSE inds

InitialIndicators(n, m, hasContainer) ==
  LET markup == [p \in 1 .. m |-> MarkupIndicator(p - 1)]
  IN IF hasContainer /\ m < n THEN Backfill(markup, m, n) ELSE markup

\* variant: init() runs whether or not there are cards
ConstructedAlwaysInit(n, m, hasContainer) ==
  startAutoAdvance(
    [currentIndex |-> 0, cardActive |-> IF n > 0 THEN {0} ELSE {},
     cardPrev |-> {}, expanded |-> {},
     indicators |-> InitialIndicators(n, m, hasContainer),
     autoAdvanceInterval |-> NULL, progressInterval |-> NULL,
     liveAuto |-> {}, progressTimers |-> NoTimers,
     fillWidth |-> 0, isPaused |-> FALSE, pendingTimeouts |-> 0,
     autoAge |-> 0])

Constructed(n, m, hasContainer) ==
  LET s0 == [currentIndex |-> 0,
             cardActive |-> IF n > 0 THEN {0} ELSE {},
             cardPrev |-> {}, expanded |-> {},
             indicators |-> InitialIndicators(n, m, hasContainer),
             autoAdvanceInterval |-> NULL, progressInterval |-> NULL,
             liveAuto |-> {}, progressTimers |-> NoTimers,
             fillWidth |-> 0, isPaused |-> FALSE, pendingTimeouts |-> 0,
             autoAge |-> 0]
  IN IF n # 0 THEN startAutoAdvance(s0) ELSE s0

\* init() runs, and so handlers exist, only when there are cards
Attached == slideCount # 0

\* the state after the DOMContentLoaded handlers ran, for the given
\* viewports and the given choices of optional markup (indicator container
\* and progress fill present or not); with complete, the markup has an
\* indicator for every card
Loaded(viewports, optional, complete) ==
  \E n \in 0 .. MaxSlides, hasContainer \in optional, hasFill \in optional,
     mobile \in viewports :
    \E m \in (IF complete THEN n ELSE 0) .. (n + MaxExtraIndicators) :
      /\ slideCount = n
      /\ hasIndicatorContainer = hasContainer
      /\ hasProgressFill = hasFill
      /\ LET s == Constructed(n, m, hasContainer)
         IN /\ currentIndex = s.currentIndex
            /\ cardActive = s.cardActive
            /\ cardPrev = s.cardPrev
            /\ expanded = s.expanded
            /\ indicators = s.indicators
            /\ autoAdvanceInterval = s.autoAdvanceInterval
            /\ progressInterval = s.progressInterval
            /\ liveAuto = s.liveAuto
            /\ progressTimers = s.progressTimers
            /\ fillWidth = s.fillWidth
            /\ isPaused = s.isPaused
            /\ pendingTimeouts = s.pendingTimeouts
            /\ autoAge = s.autoAge
      /\ pointerInside = FALSE
      /\ isMobile = mobile
      /\ intersecting = {}
      /\ playing = {}
      /\ mediaTime = [c \in 0 .. (n - 1) |-> 0]
      /\ overlayShown = IF mobile THEN 0 .. (n - 1) ELSE {}
      /\ lastEvent = "init"
      /\ lastArg = NoIndex
      /\ openPending = FALSE
      /\ nextRun = <<>>

\* the carousel alone, over every markup: the video handler takes no part
\* and the viewport is wide
Init == Loaded({FALSE}, BOOLEAN, FALSE)

\* the carousel together with the video handler, on either viewport, over
\* markup that has the optional elements and an indicator for every card
InitVideo == Loaded(BOOLEAN, {TRUE}, TRUE)

\* ---- carousel event handlers -------------------------------------------
Event(name, arg) ==
  /\ lastEvent' = name
  /\ lastArg' = arg
  /\ openPending' = IF name = "open" THEN TRUE
                    ELSE IF name \in {"close", "prev", "next", "indicator"} THEN FALSE
                    ELSE openPending

\* history of consecutive goToNext calls that started at index 0
RunAfterNext(s) ==
  IF currentIndex \notin Cards THEN nextRun
  ELSE IF currentIndex = 0 THEN <<s.currentIndex>>
  ELSE IF nextRun # <<>> THEN Append(nextRun, s.currentIndex)
  ELSE <<>>

ClickPrev ==
  /\ Attached
  /\ pendingTimeouts < MaxPending
  /\ Becomes(goToPrevious(St))
  /\ Event("prev", NoIndex)
  /\ nextRun' = <<>>
  /\ UNCHANGED <<fixedVars, videoVars, pointerInside>>

ClickNext ==
  /\ Attached
  /\ pendingTimeouts < MaxPending
  /\ LET s == goToNext(St)
     IN Becomes(s) /\ nextRun' = RunAfterNext(s)
  /\ Event("next", NoIndex)
  /\ UNCHANGED <<fixedVars, videoVars, pointerInside>>

ClickIndicator(i) ==
  /\ Attached
  /\ pendingTimeouts < MaxPending
  /\ i + 1 \in DOMAIN indicators
  /\ Becomes(goToSlide(St, i))
  /\ Event("indicator", i)
  /\ nextRun' = <<>>
  /\ UNCHANGED <<fixedVars, videoVars, pointerInside>>

ToggleDetails(c) ==
  /\ Attached
  /\ c \in Cards
  /\ Becomes(toggle(St, c))
  /\ Event(IF c \in expanded THEN "close" ELSE "open", c)
  /\ UNCHANGED <<fixedVars, videoVars, pointerInside, nextRun>>

\* cards[currentIndex] is undefined when currentIndex is not an ordinal:
\* the hover handlers then throw before they change anything
MouseEnter ==
  /\ Attached
  /\ ~pointerInside
  /\ pointerInside' = TRUE
  /\ Becomes(IF currentIndex \in Cards /\ currentIndex \notin expanded
               THEN tempPauseAutoAdvance(St) ELSE St)
  /\ Event("mouseenter", NoIndex)
  /\ UNCHANGED <<fixedVars, videoVars, nextRun>>

MouseLeave ==
  /\ Attached
  /\ pointerInside
  /\ pointerInside' = FALSE
  /\ Becomes(IF currentIndex \in Cards /\ currentIndex \notin expanded
               THEN resumeAutoAdvance(St) ELSE St)
  /\ Event("mouseleave", NoIndex)
  /\ UNCHANGED <<fixedVars, videoVars, nextRun>>

\* the callback of the setInterval of startAutoAdvance, for a scheduled timer
AutoAdvanceFire(id) ==
  /\ id \in liveAuto
  /\ pendingTimeouts < MaxPending
  /\ LET s == goToNext(St)
     IN Becomes([s EXCEPT !.autoAge = 0]) /\ nextRun' = RunAfterNext(s)
  /\ Event("auto", NoIndex)
  /\ UNCHANGED <<fixedVars, videoVars, pointerInside>>

\* variant: the clamp at 100 is missing
progressTickNoClamp(s, id) ==
  LET progress == s.progressTimers[id] + increment
      s1 == [s EXCEPT !.progressTimers[id] = progress]
  IN IF hasProgressFill THEN [s1 EXCEPT !.fillWidth = progress] ELSE s1

\* the callback of the setInterval of startProgress, for a scheduled timer
progressTick(s, id) ==
  LET raw == s.progressTimers[id] + increment
      progress == IF raw >= Full THEN Full ELSE raw
      s1 == [s EXCEPT !.progressTimers[id] = progress]
  IN IF hasProgressFill THEN [s1 EXCEPT !.fillWidth = progress] ELSE s1

\* TickMs have passed when a progress callback runs
tickElapsed(s) ==
  IF s.liveAuto # {} /\ s.autoAge < TicksPerPeriod
    THEN [s EXCEPT !.autoAge = @ + 1] ELSE s

ProgressTick(id) ==
  /\ id \in DOMAIN progressTimers
  /\ Becomes(tickElapsed(progressTick(St, id)))
  /\ Event("tick", NoIndex)
  /\ UNCHANGED <<fixedVars, videoVars, pointerInside, nextRun>>

\* the 600 ms timeout of goToSlide: it reads this.currentIndex when it runs,
\* and throws when that is not an ordinal
transitionTimeout(s) ==
  [s EXCEPT !.pendingTimeouts = @ - 1,
            !.cardPrev = IF s.currentIndex \in Cards
                           THEN @ \ {s.currentIndex} ELSE @]

TransitionTimeout ==
  /\ pendingTimeouts > 0
  /\ Becomes(transitionTimeout(St))
  /\ Event("timeout", NoIndex)
  /\ UNCHANGED <<fixedVars, videoVars, pointerInside, nextRun>>

\* the host delivers at most MaxTicks progress ticks to one timer
TickBudget(id) ==
  id \in DOMAIN progressTimers /\ progressTimers[id] < MaxTicks * increment

Navigate ==
  \/ ClickPrev
  \/ ClickNext
  \/ \E i \in 0 .. (MaxSlides + MaxExtraIndicators) : ClickIndicator(i)
  \/ \E id \in liveAuto : AutoAdvanceFire(id)
  \/ TransitionTimeout

Next ==
  \/ Navigate
  \/ \E c \in Cards : ToggleDetails(c)
  \/ MouseEnter
  \/ MouseLeave
  \/ \E id \in DOMAIN progressTimers : TickBudget(id) /\ ProgressTick(id)

Spec == Init /\ [][Next]_vars

\* ---- timers delivered on schedule ----------------------------------------
\* The host runs the callbacks in the order they fall due, and callbacks due
\* at the same moment in the order their timers were created: the progress
\* callback of a period runs TicksPerPeriod times, the last time just before
\* the auto-advance callback armed after it in startAutoAdvance.
AutoDue == autoAge >= TicksPerPeriod
TickDue == liveAuto = {} \/ autoAge < TicksPerPeriod

NextProgress ==
  \/ \E id \in DOMAIN progressTimers : TickDue /\ ProgressTick(id)
  \/ \E id \in liveAuto : AutoDue /\ AutoAdvanceFire(id)
  \/ TransitionTimeout
  \/ \E i \in 0 .. (MaxSlides + MaxExtraIndicators) : ClickIndicator(i)

SpecProgress == Init /\ [][NextProgress]_vars

\* ---- video handler ------------------------------------------------------
carouselVars == <<currentIndex, cardActive, cardPrev, expanded, indicators,
                  autoAdvanceInterval, progressInterval, liveAuto,
                  progressTimers, fillWidth, isPaused, pendingTimeouts,
                  autoAge, pointerInside, nextRun>>

Min(S) == CHOOSE x \in S : \A y \in S : x <= y

\* variant: the handler looks for the outgoing marker `prev`
getCurrentIndexOfPrev == IF cardPrev = {} THEN 0 ELSE Min(cardPrev)

\* index of the first card with class `active`, 0 when there is none
getCurrentIndex == IF cardActive = {} THEN 0 ELSE Min(cardActive)

pauseAndRewind(c) ==
  /\ playing' = playing \ {c}
  /\ mediaTime' = [mediaTime EXCEPT ![c] = 0]

\* desktop IntersectionObserver callback of card c
DesktopVisibility(c, isIntersecting) ==
  /\ IF isIntersecting /\ c = getCurrentIndex
       THEN playing' = playing \cup {c} /\ UNCHANGED mediaTime
       ELSE pauseAndRewind(c)
  /\ UNCHANGED overlayShown

\* variant: the mobile callback starts playback like the desktop one
MobileVisibilityAutoPlays(c, isIntersecting) ==
  IF ~isIntersecting \/ c # getCurrentIndex
    THEN pauseAndRewind(c) /\ overlayShown' = overlayShown \cup {c}
    ELSE playing' = playing \cup {c} /\ UNCHANGED <<mediaTime, overlayShown>>

\* mobile IntersectionObserver callback of card c
MobileVisibility(c, isIntersecting) ==
  IF ~isIntersecting \/ c # getCurrentIndex
    THEN pauseAndRewind(c) /\ overlayShown' = overlayShown \cup {c}
    ELSE UNCHANGED <<playing, mediaTime, overlayShown>>

\* the container of card c crosses the 60% threshold and the observer
\* delivers the entry
VisibilityChange(c) ==
  /\ Attached
  /\ c \in Cards
  /\ LET isIntersecting == c \notin intersecting
     IN /\ intersecting' = IF isIntersecting THEN intersecting \cup {c}
                                             ELSE intersecting \ {c}
        /\ IF isMobile THEN MobileVisibility(c, isIntersecting)
                       ELSE DesktopVisibility(c, isIntersecting)
  /\ Event("visibility", c)
  /\ UNCHANGED <<fixedVars, carouselVars>>

\* click on the overlay of card c (an overlay with display none takes no click)
OverlayTap(c) ==
  /\ Attached
  /\ isMobile
  /\ c \in overlayShown
  /\ overlayShown' = overlayShown \ {c}
  /\ playing' = playing \cup {c}
  /\ Event("tap", c)
  /\ UNCHANGED <<fixedVars, carouselVars, intersecting, mediaTime>>

\* host: a playing video moves off its start
MediaAdvance(c) ==
  /\ c \in playing
  /\ mediaTime[c] = 0
  /\ mediaTime' = [mediaTime EXCEPT ![c] = 1]
  /\ Event("media", c)
  /\ UNCHANGED <<fixedVars, carouselVars, intersecting, playing, overlayShown>>

NextVideo ==
  \/ Navigate
  \/ \E c \in Cards : VisibilityChange(c)
  \/ \E c \in Cards : OverlayTap(c)
  \/ \E c \in Cards : MediaAdvance(c)

SpecVideo == InitVideo /\ [][NextVideo]_vars

\* ---- properties ---------------------------------------------------------
AutoLive == liveAuto # {}
ProgressLive == DOMAIN progressTimers # {}
TimersCleared ==
  /\ liveAuto = {}
  /\ DOMAIN progressTimers = {}
  /\ autoAdvanceInterval = NULL
  /\ progressInterval = NULL
ActiveIndicators == {p - 1 : p \in {q \in DOMAIN indicators : indicators[q].active}}
MarkupCount == Cardinality({q \in DOMAIN indicators : ~indicators[q].synth})

\* C1: with N >= 1 slides, in every reachable state at most one auto-advance
\* interval timer and at most one progress interval timer are scheduled
\* (timers created and not yet cleared, whatever the stored handles say).
C1_AtMostOneTimerEach ==
  slideCount >= 1 =>
    /\ Cardinality(liveAuto) <= 1
    /\ Cardinality(DOMAIN progressTimers) <= 1

\* a pointer-leave restarted the timers after they had been ticking and cleared
C1_Witness ==
  /\ lastEvent = "mouseleave"
  /\ Cardinality(liveAuto) = 1
  /\ Cardinality(DOMAIN progressTimers) = 1
  /\ pendingTimeouts > 0

\* C2: right after the toggle closed an open details panel, isPaused is false
\* and both the auto-advance timer and the progress timer are live again.
C2_CloseResumes ==
  lastEvent = "close" => (~isPaused /\ AutoLive /\ ProgressLive)

\* C3: after a details panel was opened through its toggle, no auto-advance
\* firing and no progress tick happens until a panel is closed or a manual
\* goToSlide happens, whatever the pointer does; and right after the opening
\* isPaused is true and both timers are cleared.
C3_NoAdvanceWhileOpen ==
  /\ openPending => lastEvent \notin {"auto", "tick"}
  /\ lastEvent = "open" => (isPaused /\ TimersCleared)

\* C4: in every reachable state of the carousel combined with the video
\* handler, a slide's media plays only if its container intersects at the
\* threshold and its ordinal is currentIndex; on mobile, only if moreover its
\* overlay was tapped since the last reset (the overlay is hidden).
C4_PlaysOnlyVisibleCurrent ==
  \A c \in playing :
    /\ c \in intersecting
    /\ c = currentIndex
    /\ isMobile => c \notin overlayShown

\* C5: with N >= 1 slides and any number of indicators, currentIndex stays
\* within [0, slideCount) in every reachable state.
C5_IndexInRange == slideCount >= 1 => currentIndex \in Cards

\* C6: for every N >= 1 and every markup indicator count M, after the
\* initialization exactly one slide and exactly one indicator carry the
\* active marker, both at ordinal 0.
C6_InitActive ==
  (lastEvent = "init" /\ slideCount >= 1) =>
    (cardActive = {0} /\ ActiveIndicators = {0})

\* C7 as stated: from a state where exactly the slide and the indicator at
\* currentIndex are active, every goToSlide(i) with 0 <= i < N (by prev,
\* next, an indicator or the auto-advance timer) ends with currentIndex = i,
\* slide i the only active slide, indicator i the only active indicator,
\* and the progress fill at 0.
GoToSlideTarget ==
  IF lastEvent' = "indicator" THEN lastArg'
  ELSE IF lastEvent' = "prev" THEN (currentIndex - 1 + slideCount) % slideCount
  ELSE (currentIndex + 1) % slideCount

C7_Pre ==
  /\ lastEvent' \in {"prev", "next", "indicator", "auto"}
  /\ cardActive = {currentIndex}
  /\ ActiveIndicators = {currentIndex}
  /\ GoToSlideTarget \in Cards

C7_Slide ==
  /\ currentIndex' = GoToSlideTarget
  /\ cardActive' = {GoToSlideTarget}
  /\ fillWidth' = 0
  /\ \A id \in DOMAIN progressTimers' : progressTimers'[id] = 0

C8_Step ==
  /\ (lastEvent' \in {"next", "auto"} /\ currentIndex \in Cards)
       => currentIndex' = (currentIndex + 1) % slideCount
  /\ (lastEvent' = "prev" /\ currentIndex \in Cards)
       => /\ currentIndex' = (currentIndex - 1 + slideCount) % slideCount
          /\ currentIndex = 0 => currentIndex' = slideCount - 1

C8_Run ==
  /\ Len(nextRun) <= slideCount
  /\ \A j, k \in DOMAIN nextRun : j # k => nextRun[j] # nextRun[k]
  /\ (nextRun # <<>> /\ Len(nextRun) = slideCount) =>
       /\ nextRun[slideCount] = 0
       /\ {nextRun[k] : k \in DOMAIN nextRun} = Cards

C8_WrapAround == [](C8_Run) /\ [][C8_Step]_vars

\* N = MaxSlides consecutive goToNext calls from index 0 are back at 0
C8_Witness ==
  /\ slideCount = MaxSlides
  /\ Len(nextRun) = slideCount
  /\ currentIndex = 0
  /\ lastEvent \in {"next", "auto"}

\* C9 as stated: if the markup supplies M < N indicator controls, then after
\* initialization there are exactly N indicators, the synthesized ones are
\* appended in ascending order carrying index M..N-1, and a click on
\* indicator i navigates to slide i.
C9_State ==
  /\ Len(indicators) = slideCount
  /\ \A p \in DOMAIN indicators :
       /\ indicators[p].synth <=> p > MarkupCount
       /\ indicators[p].synth => indicators[p].index = p - 1

C9_Click ==
  (lastEvent' = "indicator" /\ MarkupCount < slideCount)
     => (currentIndex' = lastArg' /\ cardActive' = {lastArg'})

C10_Step ==
  /\ (lastEvent' = "mouseenter" /\ currentIndex \in Cards
        /\ currentIndex \notin expanded)
       => (TimersCleared' /\ isPaused' = isPaused)
  /\ (lastEvent' = "mouseleave" /\ currentIndex \in Cards
        /\ currentIndex \notin expanded /\ ~isPaused)
       => (AutoLive' /\ ProgressLive' /\ ~isPaused')
  /\ lastEvent' \in {"mouseenter", "mouseleave"} => (isPaused' => isPaused)
  /\ lastEvent' = "open" => isPaused'
  /\ lastEvent' = "close" => ~isPaused'

C11_Bound ==
  /\ fillWidth <= Full
  /\ \A id \in DOMAIN progressTimers : progressTimers[id] <= Full

C11_Step ==
  lastEvent' = "auto" =>
    /\ autoAge = autoAdvanceDelay \div TickMs
    /\ \A id \in DOMAIN progressTimers : progressTimers[id] = 100 * ProgressScale
    /\ hasProgressFill => fillWidth = 100 * ProgressScale

C11_FillReachesHundred == [](C11_Bound) /\ [][C11_Step]_vars

\* in the period after an auto-advance to slide 1, the 90th tick has just
\* brought the fill to 100 and the auto-advance callback is due
C11_Witness ==
  /\ lastEvent = "tick"
  /\ nextRun = <<1>>
  /\ currentIndex = 1
  /\ hasProgressFill
  /\ fillWidth = Full
  /\ autoAge = 90
  /\ AutoLive

\* C12: with zero slides the carousel is inert: no auto-advance timer and no
\* progress timer is ever scheduled, no indicator is synthesized, no click,
\* hover or timer handler ever runs, and the carousel state stays as
\* constructed.
C12_InertWithoutSlides ==
  slideCount = 0 =>
    /\ TimersCleared
    /\ \A p \in DOMAIN indicators : ~indicators[p].synth
    /\ lastEvent = "init"
    /\ currentIndex = 0
    /\ cardActive = {} /\ cardPrev = {} /\ expanded = {}
    /\ ~isPaused
    /\ pendingTimeouts = 0
    /\ fillWidth = 0
    /\ playing = {}

\* no cards, while the markup has an indicator container with an indicator
\* and a progress fill
C12_Witness ==
  /\ slideCount = 0
  /\ hasIndicatorContainer
  /\ hasProgressFill
  /\ Len(indicators) = 1
  /\ TimersCleared

\* C13: after goToSlide moved from slide a to slide b, slide a carries the
\* `prev` marker, and the 600 ms timeout clears it from slide a; so once every
\* pending timeout has fired, no slide carries `prev` (stated for the
\* navigations between slides, where currentIndex is an ordinal).
C13_PrevCleared ==
  currentIndex \in Cards =>
    /\ (lastEvent \in {"prev", "next", "indicator", "auto"} /\ pendingTimeouts > 0)
         => cardPrev # {}
    /\ pendingTimeouts = 0 => cardPrev = {}

\* C14: a handler that ends in resumeAutoAdvance (panel closing, pointer-leave
\* with the current panel not open, goToSlide to an ordinal) restarts the
\* timers only when isPaused was false on entry: then exactly one timer of
\* each kind is scheduled afterwards, held by the handles, with progress and
\* fill at 0; when isPaused was true on entry no timer is started; in both
\* cases isPaused is false afterwards.
C14_ResumeRan ==
  \/ lastEvent' = "close"
  \/ lastEvent' = "mouseleave" /\ currentIndex \in Cards
       /\ currentIndex \notin expanded
  \/ lastEvent' \in {"prev", "next", "indicator", "auto"}
       /\ currentIndex \in Cards /\ GoToSlideTarget \in Cards

C14_Step ==
  C14_ResumeRan =>
    /\ ~isPaused'
    /\ ~isPaused =>
         /\ liveAuto' = {autoAdvanceInterval'}
         /\ DOMAIN progressTimers' = {progressInterval'}
         /\ autoAdvanceInterval' # NULL /\ progressInterval' # NULL
         /\ progressTimers'[progressInterval'] = 0
         /\ hasProgressFill => fillWidth' = 0
    /\ isPaused =>
         /\ liveAuto' \subseteq liveAuto
         /\ DOMAIN progressTimers' \subseteq DOMAIN progressTimers
         /\ ~AutoLive' /\ ~ProgressLive'

C14_ResumeRestartsUnlessPaused == [][C14_Step]_vars

\* a panel was closed while isPaused was true: no timer runs, isPaused is false
C14_Witness ==
  /\ lastEvent = "close"
  /\ expanded = {}
  /\ ~isPaused
  /\ TimersCleared
  /\ currentIndex \in Cards

\* the ordinal the video handler takes as active: that of the first card
\* with the active marker, 0 when no card has it
ActiveOrdinal ==
  IF cardActive = {} THEN 0
  ELSE CHOOSE c \in cardActive : \A d \in cardActive : c <= d

\* C15: on mobile, a video starts playing only by a tap on its overlay, which
\* hides the overlay; no visibility callback starts playback; and a
\* visibility callback for a slide that is not intersecting or not the
\* active one leaves its media paused, at time 0, with the overlay shown.
C15_Step ==
  isMobile =>
    /\ \A c \in Cards :
         (c \notin playing /\ c \in playing') =>
           /\ lastEvent' = "tap" /\ lastArg' = c
           /\ c \in overlayShown /\ c \notin overlayShown'
    /\ lastEvent' = "visibility" => playing' \subseteq playing
    /\ (lastEvent' = "visibility"
          /\ (lastArg' \notin intersecting' \/ lastArg' # ActiveOrdinal)) =>
         /\ lastArg' \notin playing'
         /\ mediaTime'[lastArg'] = 0
         /\ lastArg' \in overlayShown'

C15_MobileTapOnly == [][C15_Step]_vars

\* on mobile the container of the current slide 0 left the viewport: its
\* video is paused at 0 under the overlay, while the tapped video of slide 1
\* plays on
C15_Witness ==
  /\ isMobile
  /\ lastEvent = "visibility"
  /\ lastArg = 0
  /\ currentIndex = 0
  /\ 0 \notin intersecting
  /\ 0 \notin playing
  /\ mediaTime[0] = 0
  /\ 0 \in overlayShown
  /\ 1 \in playing
  /\ 1 \notin overlayShown

\* C16: on desktop, a visibility callback of slide c takes the active index
\* from the active marker as it is then, and plays c's media iff c's
\* container is intersecting and c is that index; otherwise it pauses the
\* media and rewinds it to 0.  It leaves the other media alone and never
\* changes currentIndex, isPaused or the carousel timers.
C16_Step ==
  lastEvent' = "visibility" =>
    /\ ~isMobile =>
         /\ IF lastArg' \in intersecting' /\ lastArg' = ActiveOrdinal
              THEN lastArg' \in playing' /\ mediaTime' = mediaTime
              ELSE lastArg' \notin playing' /\ mediaTime'[lastArg'] = 0
         /\ \A d \in Cards \ {lastArg'} :
              /\ d \in playing' <=> d \in playing
              /\ mediaTime'[d] = mediaTime[d]
    /\ UNCHANGED <<currentIndex, cardActive, isPaused, autoAdvanceInterval,
                   progressInterval, liveAuto, progressTimers>>

C16_DesktopPlaysVisibleActive == [][C16_Step]_vars

\* desktop: slide 1 is active, intersecting and playing, and the callback of
\* slide 0, intersecting but not active, has left its media paused at 0
C16_Witness ==
  /\ ~isMobile
  /\ lastEvent = "visibility"
  /\ lastArg = 0
  /\ currentIndex = 1
  /\ cardActive = {1}
  /\ intersecting = {0, 1}
  /\ playing = {1}
  /\ mediaTime[0] = 0

\* C17: with N >= 1 slides and the index in range, in every reachable state
\* where no details panel is open, isPaused is false and the pointer is
\* outside the container, the auto-advance timer is live (so the carousel
\* does not stall after a panel was closed by its toggle or by a goToSlide).
C17_NoStall ==
  (/\ slideCount >= 1
   /\ currentIndex \in Cards
   /\ expanded = {}
   /\ ~isPaused
   /\ ~pointerInside) => AutoLive

\* C18: between handlers, isPaused = true implies that neither timer is live
\* and that at least one details panel is open.
C18_PausedMeansOpen ==
  isPaused => (~AutoLive /\ ~ProgressLive /\ expanded # {})

\* C19: as long as the index is in range, between handlers the auto-advance
\* timer is live if and only if the progress timer is live.
C19_TimersTogether ==
  (slideCount = 0 \/ currentIndex \in Cards) => (AutoLive <=> ProgressLive)

\* an opening cleared both timers that a navigation had started together
C19_Witness ==
  /\ lastEvent = "open"
  /\ currentIndex = 1
  /\ ~AutoLive
  /\ ~ProgressLive
  /\ pendingTimeouts > 0

\* C20: while the pointer is inside the container and no details panel is
\* open (index in range), no auto-advance timer is live and no auto-advance
\* fires, whatever is clicked during the hover.
C20_Hover ==
  /\ pointerInside
  /\ expanded = {}
  /\ currentIndex \in Cards

C20_NoAdvanceDuringHover ==
  /\ [](C20_Hover => ~AutoLive)
  /\ [][C20_Hover => lastEvent' # "auto"]_vars

====
